---------------------------- MODULE Spec2Model ----------------------------
(***************************************************************************)
(* Model of scripts/convert-chapters.py: the chapter-title parser with its *)
(* Chinese numeral conversion (parse_chapter_title), the chapter parser    *)
(* with its paragraph segmentation loop (parse_txt_file) and the batch     *)
(* driver (main).                                                          *)
(*                                                                         *)
(* Text is modelled as sequences of characters.  TLA+ strings are ASCII,   *)
(* so every character of the source is given an ASCII name:                *)
(*   "di" = U+7B2C (the ordinal marker), "hui" = U+56DE (the chapter       *)
(*   marker), "yi".."jiu" = the digits one..nine, "shi" = ten,             *)
(*   "bai" = hundred, "ling" = zero, " " = a whitespace character,         *)
(*   "A", "B" = ordinary text, "0".."9" = ASCII digits, "a", "b" = letters,*)
(*   "+", "-", "_" = themselves, "sup2" = U+00B2 (superscript two).        *)
(***************************************************************************)
EXTENDS Integers, Sequences, FiniteSets, TLC

VARIABLES
  pc,                \* position of the program
  dir,               \* SOURCE_DIR: its .txt files, in directory (glob) order
  unwritable,        \* output file names that cannot be opened for writing
  out,               \* OUTPUT_DIR: file name -> file content
  txt_files,         \* main: the sorted file list
  idx,               \* main: position of the for loop in txt_files
  log,               \* lines printed to standard output
  run,               \* which invocation of main this is
  out1,              \* OUTPUT_DIR as the first invocation left it
  cur,               \* parse_txt_file: the file being parsed (file_path)
  lines,             \* parse_txt_file: lines
  first_line,        \* parse_txt_file / parse_chapter_title: first_line
  chapter_num,       \* parse_txt_file: chapter_num
  title_text,        \* parse_txt_file: title_text
  paragraphs,        \* parse_txt_file: paragraphs
  current_paragraph, \* parse_txt_file: current_paragraph
  li,                \* parse_txt_file: position of the for loop in lines
  result             \* parse_txt_file: the returned dict

vars == <<pc, dir, unwritable, out, txt_files, idx, log, run, out1, cur, lines,
          first_line, chapter_num, title_text, paragraphs, current_paragraph,
          li, result>>

(***************************************************************************)
(* Bounds of the model.                                                    *)
(***************************************************************************)
MaxChapter == 120
MaxNumLen == 3
MaxHeadLen == 2
MaxStemLen == 2
MaxLines == 7
MaxFiles == 3

(***************************************************************************)
(* Characters and the string operations of Python the program uses.        *)
(***************************************************************************)
DI == "di"
HUI == "hui"
SP == " "

NumeralGlyphs ==
  {"yi", "er", "san", "si", "wu", "liu", "qi", "ba", "jiu", "shi", "bai", "ling"}

IsSpace(c) == c = SP

\* All sequences over S of length 0..n.
SeqsUpTo(S, n) == UNION {[1..k -> S] : k \in 0..n}

RECURSIVE LStrip(_)
LStrip(s) == IF s # <<>> /\ IsSpace(Head(s)) THEN LStrip(Tail(s)) ELSE s

RECURSIVE RStrip(_)
RStrip(s) ==
  IF s # <<>> /\ IsSpace(s[Len(s)]) THEN RStrip(SubSeq(s, 1, Len(s) - 1)) ELSE s

\* str.strip()
Strip(s) == RStrip(LStrip(s))

\* str.startswith(p)
StartsWith(s, p) == Len(s) >= Len(p) /\ SubSeq(s, 1, Len(p)) = p

\* ''.join(parts)
RECURSIVE Join(_)
Join(parts) == IF parts = <<>> THEN <<>> ELSE Head(parts) \o Join(Tail(parts))

(***************************************************************************)
(* parse_chapter_title                                                     *)
(***************************************************************************)
\* The lookup table chinese_nums.
chinese_nums ==
  (<<"yi">> :> 1) @@ (<<"er">> :> 2) @@ (<<"san">> :> 3) @@ (<<"si">> :> 4) @@
  (<<"wu">> :> 5) @@ (<<"liu">> :> 6) @@ (<<"qi">> :> 7) @@ (<<"ba">> :> 8) @@
  (<<"jiu">> :> 9) @@ (<<"shi">> :> 10) @@
  (<<"shi", "yi">> :> 11) @@ (<<"shi", "er">> :> 12) @@ (<<"shi", "san">> :> 13) @@
  (<<"shi", "si">> :> 14) @@ (<<"shi", "wu">> :> 15) @@ (<<"shi", "liu">> :> 16) @@
  (<<"shi", "qi">> :> 17) @@ (<<"shi", "ba">> :> 18) @@ (<<"shi", "jiu">> :> 19) @@
  (<<"er", "shi">> :> 20) @@
  (<<"er", "shi", "yi">> :> 21) @@ (<<"er", "shi", "er">> :> 22) @@
  (<<"er", "shi", "san">> :> 23) @@ (<<"er", "shi", "si">> :> 24) @@
  (<<"er", "shi", "wu">> :> 25) @@
  (<<"bai">> :> 100) @@ (<<"ling">> :> 0)

\* key in chinese_nums
InTable(k) == \E t \in DOMAIN chinese_nums : t = k

\* chinese_nums.get(k, 0)
TableGet(k) == IF InTable(k) THEN chinese_nums[CHOOSE t \in DOMAIN chinese_nums : t = k] ELSE 0

\* The fallback loop: the sum of the table values of the single characters.
RECURSIVE SumGlyphs(_)
SumGlyphs(s) ==
  IF s = <<>> THEN 0
  ELSE (IF InTable(<<Head(s)>>) THEN TableGet(<<Head(s)>>) ELSE 0) + SumGlyphs(Tail(s))

\* The conversion without its branch for numerals that start with twenty.
ConvertNumeralNoTwenty(chinese_num) ==
  IF InTable(chinese_num) THEN TableGet(chinese_num)
  ELSE IF StartsWith(chinese_num, <<"shi">>)
    THEN IF Len(chinese_num) = 1 THEN 10
         ELSE 10 + TableGet(SubSeq(chinese_num, 2, Len(chinese_num)))
  ELSE SumGlyphs(chinese_num)

\* The conversion "Chinese number to Arabic" of parse_chapter_title.
ConvertNumeral(chinese_num) ==
  IF InTable(chinese_num) THEN TableGet(chinese_num)
  ELSE IF StartsWith(chinese_num, <<"er", "shi">>)
    THEN IF Len(chinese_num) = 2 THEN 20
         ELSE 20 + TableGet(SubSeq(chinese_num, 3, Len(chinese_num)))
  ELSE IF StartsWith(chinese_num, <<"shi">>)
    THEN IF Len(chinese_num) = 1 THEN 10
         ELSE 10 + TableGet(SubSeq(chinese_num, 2, Len(chinese_num)))
  ELSE SumGlyphs(chinese_num)

\* Length of the longest prefix of s made of numeral glyphs: what the greedy
\* class [...]+ of the regular expression consumes.
RECURSIVE GlyphRun(_)
GlyphRun(s) ==
  IF s # <<>> /\ Head(s) \in NumeralGlyphs THEN 1 + GlyphRun(Tail(s)) ELSE 0

\* re.match(r'DI([glyphs]+)HUI\s*(.+)', s): the groups of the match, or
\* matched = FALSE.  No glyph is HUI, so group 1 is the whole glyph run after
\* DI; \s* gives back its last character when nothing else is left for (.+).
TitleMatch(s) ==
  LET k == IF s # <<>> /\ Head(s) = DI THEN GlyphRun(Tail(s)) ELSE 0
      rest == SubSeq(s, k + 3, Len(s))
  IN IF /\ s # <<>>
        /\ Head(s) = DI
        /\ k >= 1
        /\ Len(s) >= k + 2
        /\ s[k + 2] = HUI
        /\ rest # <<>>
     THEN [matched |-> TRUE,
           group1 |-> SubSeq(s, 2, k + 1),
           group2 |-> IF LStrip(rest) = <<>> THEN <<rest[Len(rest)]>> ELSE LStrip(rest)]
     ELSE [matched |-> FALSE, group1 |-> <<>>, group2 |-> <<>>]

\* parse_chapter_title returning the whole line as the title text.
parse_chapter_title_whole_line(line) ==
  LET match == TitleMatch(Strip(line))
  IN IF match.matched
     THEN <<ConvertNumeral(match.group1), Strip(line)>>
     ELSE <<0, Strip(line)>>

\* parse_chapter_title(first_line): the pair (chapter number, title text).
parse_chapter_title(line) ==
  LET match == TitleMatch(Strip(line))
  IN IF match.matched
     THEN <<ConvertNumeral(match.group1), Strip(match.group2)>>
     ELSE <<0, Strip(line)>>


(***************************************************************************)
(* Python's int(), str.isdigit() and the format specification 03d.         *)
(***************************************************************************)
DigitChars == {"0", "1", "2", "3", "4", "5", "6", "7", "8", "9"}

DigitVal(c) ==
  CASE c = "0" -> 0 [] c = "1" -> 1 [] c = "2" -> 2 [] c = "3" -> 3 [] c = "4" -> 4
    [] c = "5" -> 5 [] c = "6" -> 6 [] c = "7" -> 7 [] c = "8" -> 8 [] c = "9" -> 9

DigitChar(d) ==
  CASE d = 0 -> "0" [] d = 1 -> "1" [] d = 2 -> "2" [] d = 3 -> "3" [] d = 4 -> "4"
    [] d = 5 -> "5" [] d = 6 -> "6" [] d = 7 -> "7" [] d = 8 -> "8" [] d = 9 -> "9"

\* str.isdigit(): the string is not empty and every character is a digit
\* character.  U+00B2 is one (Numeric_Type=Digit), though int() rejects it.
IsDigitStr(s) ==
  s # <<>> /\ \A i \in 1..Len(s) : s[i] \in DigitChars \cup {"sup2"}

\* The value of digits and underscores read left to right, underscores skipped.
RECURSIVE DigitsValue(_, _)
DigitsValue(s, acc) ==
  IF s = <<>> THEN acc
  ELSE IF Head(s) = "_" THEN DigitsValue(Tail(s), acc)
  ELSE DigitsValue(Tail(s), 10 * acc + DigitVal(Head(s)))

\* int() that takes a leading zero for an error, as a Python literal does.
IntParseNoLeadingZero(s) ==
  LET t == Strip(s)
      valid == /\ t # <<>>
               /\ \A i \in 1..Len(t) : t[i] \in DigitChars
               /\ (Len(t) > 1 => t[1] # "0")
  IN IF valid THEN [ok |-> TRUE, val |-> DigitsValue(t, 0)]
     ELSE [ok |-> FALSE, val |-> 0]

\* int(s) of a str: surrounding whitespace is dropped, one sign is allowed,
\* then decimal digits, single underscores allowed between digits.  ok = FALSE
\* stands for ValueError.
IntParse(s) ==
  LET t == Strip(s)
      signed == t # <<>> /\ Head(t) \in {"+", "-"}
      b == IF signed THEN Tail(t) ELSE t
      valid == /\ b # <<>>
               /\ \A i \in 1..Len(b) : b[i] \in DigitChars \cup {"_"}
               /\ b[1] # "_"
               /\ b[Len(b)] # "_"
               /\ \A i \in 1..(Len(b) - 1) : ~(b[i] = "_" /\ b[i + 1] = "_")
  IN IF valid
     THEN [ok |-> TRUE,
           val |-> IF signed /\ Head(t) = "-" THEN 0 - DigitsValue(b, 0)
                   ELSE DigitsValue(b, 0)]
     ELSE [ok |-> FALSE, val |-> 0]

\* str(n) for n >= 0
RECURSIVE DecStr(_)
DecStr(n) == IF n < 10 THEN <<DigitChar(n)>> ELSE Append(DecStr(n \div 10), DigitChar(n % 10))

RECURSIVE ZeroPad(_, _)
ZeroPad(s, width) == IF Len(s) >= width THEN s ELSE ZeroPad(<<"0">> \o s, width)

\* f"{n:03d}": minimum width 3, the sign counted in the width and put
\* before the zeros.
Format03d(n) ==
  IF n < 0 THEN <<"-">> \o ZeroPad(DecStr(0 - n), 2) ELSE ZeroPad(DecStr(n), 3)

\* f"chapter-{chapter_num:03d}.json"
OutputName(n) == <<"chapter-">> \o Format03d(n) \o <<".json">>

(***************************************************************************)
(* parse_txt_file.  A file is [stem, readable, content]; content is the    *)
(* text of the file as the sequence of its lines (the text cut at "\n").   *)
(***************************************************************************)
NoFile == [stem |-> <<>>, readable |-> FALSE, content |-> <<>>]

IsBlank(line) == Strip(line) = <<>>

RECURSIVE DropLeadingBlank(_)
DropLeadingBlank(ls) ==
  IF ls # <<>> /\ IsBlank(Head(ls)) THEN DropLeadingBlank(Tail(ls)) ELSE ls

RECURSIVE DropTrailingBlank(_)
DropTrailingBlank(ls) ==
  IF ls # <<>> /\ IsBlank(ls[Len(ls)])
  THEN DropTrailingBlank(SubSeq(ls, 1, Len(ls) - 1)) ELSE ls

\* content.strip().split('\n'): newlines are whitespace, so strip() removes
\* the blank lines at both ends, the whitespace before the first remaining
\* line and after the last one; the empty string splits into one empty line.
StripSplit(content) ==
  LET ls == DropTrailingBlank(DropLeadingBlank(content))
  IN IF ls = <<>> THEN << <<>> >>
     ELSE [i \in 1..Len(ls) |->
             IF i = 1 /\ i = Len(ls) THEN Strip(ls[i])
             ELSE IF i = 1 THEN LStrip(ls[i])
             ELSE IF i = Len(ls) THEN RStrip(ls[i])
             ELSE ls[i]]

\* {"content": [para_text]} with para_text = ''.join(current_paragraph)
MakeParagraph(buffer) == [content |-> <<Join(buffer)>>]

\* open(file_path) succeeds; lines 82-90.
ReadFile ==
  /\ pc = "open"
  /\ cur.readable
  /\ LET ls == StripSplit(cur.content)
         fl == Strip(ls[1])
         parsed == parse_chapter_title(fl)
     IN /\ lines' = ls
        /\ first_line' = fl
        /\ chapter_num' = parsed[1]
        /\ title_text' = parsed[2]
  /\ pc' = "idcheck"
  /\ UNCHANGED <<dir, unwritable, out, txt_files, idx, log, run, out1, cur,
                 paragraphs, current_paragraph, li, result>>

\* open(file_path) raises OSError; line 82.
OpenFails ==
  /\ pc = "open"
  /\ ~cur.readable
  /\ pc' = "raised"
  /\ UNCHANGED <<dir, unwritable, out, txt_files, idx, log, run, out1, cur, lines,
                 first_line, chapter_num, title_text, paragraphs,
                 current_paragraph, li, result>>

\* chapter_num != 0: the filename is not consulted; lines 93, 98-99.
UseTitleNumber ==
  /\ pc = "idcheck"
  /\ chapter_num # 0
  /\ paragraphs' = <<>>
  /\ current_paragraph' = <<>>
  /\ li' = 2
  /\ pc' = "segment"
  /\ UNCHANGED <<dir, unwritable, out, txt_files, idx, log, run, out1, cur, lines,
                 first_line, chapter_num, title_text, result>>

\* chapter_num == 0 and int(file_path.stem) returns; lines 93-95, 98-99.
FilenameFallback ==
  /\ pc = "idcheck"
  /\ chapter_num = 0
  /\ IntParse(cur.stem).ok
  /\ chapter_num' = IntParse(cur.stem).val
  /\ paragraphs' = <<>>
  /\ current_paragraph' = <<>>
  /\ li' = 2
  /\ pc' = "segment"
  /\ UNCHANGED <<dir, unwritable, out, txt_files, idx, log, run, out1, cur, lines,
                 first_line, title_text, result>>

\* chapter_num == 0 and int(file_path.stem) raises ValueError; lines 93-95.
FilenameFallbackFails ==
  /\ pc = "idcheck"
  /\ chapter_num = 0
  /\ ~IntParse(cur.stem).ok
  /\ pc' = "raised"
  /\ UNCHANGED <<dir, unwritable, out, txt_files, idx, log, run, out1, cur, lines,
                 first_line, chapter_num, title_text, paragraphs,
                 current_paragraph, li, result>>

\* One pass of the for loop with a non-blank line; lines 101-104.
LoopNonBlank ==
  /\ pc = "segment"
  /\ li <= Len(lines)
  /\ Strip(lines[li]) # <<>>
  /\ current_paragraph' = Append(current_paragraph, Strip(lines[li]))
  /\ li' = li + 1
  /\ UNCHANGED <<pc, dir, unwritable, out, txt_files, idx, log, run, out1, cur,
                 lines, first_line, chapter_num, title_text, paragraphs, result>>

\* One pass with a blank line and a non-empty buffer; lines 101-109.
LoopBlankFlush ==
  /\ pc = "segment"
  /\ li <= Len(lines)
  /\ Strip(lines[li]) = <<>>
  /\ current_paragraph # <<>>
  /\ paragraphs' = Append(paragraphs, MakeParagraph(current_paragraph))
  /\ current_paragraph' = <<>>
  /\ li' = li + 1
  /\ UNCHANGED <<pc, dir, unwritable, out, txt_files, idx, log, run, out1, cur,
                 lines, first_line, chapter_num, title_text, result>>

\* The pass with "else" for "elif current_paragraph": an empty buffer is
\* emitted too.
LoopBlankIdleEmits ==
  /\ pc = "segment"
  /\ li <= Len(lines)
  /\ Strip(lines[li]) = <<>>
  /\ current_paragraph = <<>>
  /\ paragraphs' = Append(paragraphs, MakeParagraph(current_paragraph))
  /\ li' = li + 1
  /\ UNCHANGED <<pc, dir, unwritable, out, txt_files, idx, log, run, out1, cur,
                 lines, first_line, chapter_num, title_text, current_paragraph,
                 result>>

\* One pass with a blank line and an empty buffer; lines 101-105.
LoopBlankIdle ==
  /\ pc = "segment"
  /\ li <= Len(lines)
  /\ Strip(lines[li]) = <<>>
  /\ current_paragraph = <<>>
  /\ li' = li + 1
  /\ UNCHANGED <<pc, dir, unwritable, out, txt_files, idx, log, run, out1, cur,
                 lines, first_line, chapter_num, title_text, paragraphs,
                 current_paragraph, result>>

\* The buffer left by the loop is forgotten.
LastParagraphForgotten(ps, buffer) == ps

\* The paragraphs after the loop; lines 112-114.
LastParagraph(ps, buffer) ==
  IF buffer # <<>> THEN Append(ps, MakeParagraph(buffer)) ELSE ps

\* The loop is over: the last paragraph and the returned dict; lines 112-121.
FinishParse ==
  /\ pc = "segment"
  /\ li > Len(lines)
  /\ paragraphs' = LastParagraph(paragraphs, current_paragraph)
  /\ result' = [id |-> chapter_num, title |-> first_line, titleText |-> title_text,
                paragraphs |-> paragraphs']
  /\ pc' = "returned"
  /\ UNCHANGED <<dir, unwritable, out, txt_files, idx, log, run, out1, cur, lines,
                 first_line, chapter_num, title_text, current_paragraph, li>>

ParseNext ==
  \/ ReadFile
  \/ OpenFails
  \/ UseTitleNumber
  \/ FilenameFallback
  \/ FilenameFallbackFails
  \/ LoopNonBlank
  \/ LoopBlankFlush
  \/ LoopBlankIdle
  \/ FinishParse

(***************************************************************************)
(* main                                                                    *)
(***************************************************************************)
\* The sort key of line 129 raises ValueError: isdigit() holds and int() fails.
SortKeyRaises(f) == IsDigitStr(f.stem) /\ ~IntParse(f.stem).ok

\* lambda p: int(p.stem) if p.stem.isdigit() else 0
SortKey(f) == IF IsDigitStr(f.stem) THEN IntParse(f.stem).val ELSE 0

\* f put into the sorted list fs behind every file whose key is not larger.
RECURSIVE InsertSorted(_, _)
InsertSorted(fs, f) ==
  IF fs = <<>> THEN <<f>>
  ELSE IF SortKey(fs[Len(fs)]) <= SortKey(f) THEN Append(fs, f)
  ELSE Append(InsertSorted(SubSeq(fs, 1, Len(fs) - 1), f), fs[Len(fs)])

\* sorted(files, key=...): stable, files of equal key keep their glob order.
RECURSIVE SortFiles(_)
SortFiles(fs) ==
  IF fs = <<>> THEN <<>>
  ELSE InsertSorted(SortFiles(SubSeq(fs, 1, Len(fs) - 1)), fs[Len(fs)])

\* str(n)
SignedStr(n) == IF n < 0 THEN <<"-">> \o DecStr(0 - n) ELSE DecStr(n)

\* json.dump(chapter_data, ...): the values of the dict in order, the id in
\* decimal, then the one string of every paragraph.
JsonDump(rec) ==
  <<SignedStr(rec.id), rec.title, rec.titleText>>
    \o [i \in 1..Len(rec.paragraphs) |-> rec.paragraphs[i].content[1]]

\* The file opened with 'a': the dump is added to what the file holds.
WriteFileAppend(o, name, data) ==
  [n \in DOMAIN o \cup {name} |->
     IF n = name THEN (IF name \in DOMAIN o THEN o[name] \o data ELSE data) ELSE o[n]]

\* open(output_file, 'w') and the dump: the file is created or truncated.
WriteFile(o, name, data) ==
  [n \in DOMAIN o \cup {name} |-> IF n = name THEN data ELSE o[n]]

Line(kind, stem) == [kind |-> kind, file |-> stem]

\* The values the locals of parse_txt_file hold before it is called.
ParseLocalsReset ==
  /\ cur' = NoFile
  /\ lines' = <<>>
  /\ first_line' = <<>>
  /\ chapter_num' = 0
  /\ title_text' = <<>>
  /\ paragraphs' = <<>>
  /\ current_paragraph' = <<>>
  /\ li' = 0
  /\ result' = <<>>

ParseLocals ==
  <<cur, lines, first_line, chapter_num, title_text, paragraphs,
    current_paragraph, li, result>>

\* sorted() raises ValueError out of main: the process ends with a traceback;
\* lines 126-129.
EnumerateCrash ==
  /\ pc = "main"
  /\ \E i \in 1..Len(dir) : SortKeyRaises(dir[i])
  /\ pc' = "crashed"
  /\ UNCHANGED <<dir, unwritable, out, txt_files, idx, log, run, out1>>
  /\ UNCHANGED ParseLocals

\* No .txt file: one message and return; lines 126-133.
EnumerateEmpty ==
  /\ pc = "main"
  /\ dir = <<>>
  /\ log' = Append(log, Line("NoFiles", <<>>))
  /\ pc' = "exit"
  /\ UNCHANGED <<dir, unwritable, out, txt_files, idx, run, out1>>
  /\ UNCHANGED ParseLocals

\* The sorted file list and the "Found" line; lines 126-135.
Enumerate ==
  /\ pc = "main"
  /\ dir # <<>>
  /\ \A i \in 1..Len(dir) : ~SortKeyRaises(dir[i])
  /\ txt_files' = SortFiles(dir)
  /\ idx' = 1
  /\ log' = Append(log, Line("Found", <<>>))
  /\ pc' = "loop"
  /\ UNCHANGED <<dir, unwritable, out, run, out1>>
  /\ UNCHANGED ParseLocals

\* The for loop takes the next file and calls parse_txt_file; lines 138-142.
PickFile ==
  /\ pc = "loop"
  /\ idx <= Len(txt_files)
  /\ log' = Append(log, Line("Processing", txt_files[idx].stem))
  /\ cur' = txt_files[idx]
  /\ pc' = "open"
  /\ UNCHANGED <<dir, unwritable, out, txt_files, idx, run, out1, lines,
                 first_line, chapter_num, title_text, paragraphs,
                 current_paragraph, li, result>>

\* The record is dumped to chapter-NNN.json; lines 143-151.
WriteOutput ==
  /\ pc = "returned"
  /\ OutputName(result.id) \notin unwritable
  /\ out' = WriteFile(out, OutputName(result.id), JsonDump(result))
  /\ log' = Append(log, Line("Created", cur.stem))
  /\ idx' = idx + 1
  /\ pc' = "loop"
  /\ UNCHANGED <<dir, unwritable, txt_files, run, out1>>
  /\ UNCHANGED ParseLocals

\* open(output_file, 'w') raises OSError; lines 143-148.
WriteFails ==
  /\ pc = "returned"
  /\ OutputName(result.id) \in unwritable
  /\ pc' = "raised"
  /\ UNCHANGED <<dir, unwritable, out, txt_files, idx, log, run, out1>>
  /\ UNCHANGED ParseLocals

\* except Exception: the error line, then the next file; lines 153-154.
ReportError ==
  /\ pc = "raised"
  /\ log' = Append(log, Line("ERROR", cur.stem))
  /\ idx' = idx + 1
  /\ pc' = "loop"
  /\ UNCHANGED <<dir, unwritable, out, txt_files, run, out1>>
  /\ UNCHANGED ParseLocals

\* The loop is over: the summary line; line 156.
Summary ==
  /\ pc = "loop"
  /\ idx > Len(txt_files)
  /\ log' = Append(log, Line("Done", <<>>))
  /\ pc' = "exit"
  /\ UNCHANGED <<dir, unwritable, out, txt_files, idx, run, out1>>
  /\ UNCHANGED ParseLocals

\* The program is run a second time on the unchanged input directory.
Rerun ==
  /\ pc \in {"exit", "crashed"}
  /\ run = 1
  /\ run' = 2
  /\ out1' = out
  /\ txt_files' = <<>>
  /\ idx' = 0
  /\ log' = <<>>
  /\ pc' = "main"
  /\ ParseLocalsReset
  /\ UNCHANGED <<dir, unwritable, out>>

MainNext ==
  \/ EnumerateCrash
  \/ EnumerateEmpty
  \/ Enumerate
  \/ PickFile
  \/ ParseNext
  \/ WriteOutput
  \/ WriteFails
  \/ ReportError
  \/ Summary
  \/ Rerun

\* parse_chapter_title called on first_line; lines 21-66.
CallParseChapterTitle ==
  /\ pc = "title"
  /\ chapter_num' = parse_chapter_title(first_line)[1]
  /\ title_text' = parse_chapter_title(first_line)[2]
  /\ pc' = "titled"
  /\ UNCHANGED <<dir, unwritable, out, txt_files, idx, log, run, out1, cur, lines,
                 first_line, paragraphs, current_paragraph, li, result>>

(***************************************************************************)
(* The inputs.                                                             *)
(***************************************************************************)
GlyphOf(d) ==
  CASE d = 1 -> "yi" [] d = 2 -> "er" [] d = 3 -> "san" [] d = 4 -> "si"
    [] d = 5 -> "wu" [] d = 6 -> "liu" [] d = 7 -> "qi" [] d = 8 -> "ba"
    [] d = 9 -> "jiu"

Units(n) == IF n % 10 = 0 THEN <<>> ELSE <<GlyphOf(n % 10)>>

\* The standard numeral of n, 1 <= n <= 199.
Numeral(n) ==
  IF n < 10 THEN <<GlyphOf(n)>>
  ELSE IF n < 20 THEN <<"shi">> \o Units(n)
  ELSE IF n < 100 THEN <<GlyphOf(n \div 10), "shi">> \o Units(n)
  ELSE IF n = 100 THEN <<"yi", "bai">>
  ELSE IF n < 110 THEN <<"yi", "bai", "ling">> \o Units(n)
  ELSE <<"yi", "bai", GlyphOf((n - 100) \div 10), "shi">> \o Units(n)

\* The title line of chapter numeral num with heading text x.
TitleLine(num, x) == <<DI>> \o num \o <<HUI, SP>> \o x

GlyphStrings == SeqsUpTo(NumeralGlyphs, MaxNumLen) \ {<<>>}

EmptyOut == [n \in {} |-> <<>>]

Idle ==
  /\ dir = <<>>
  /\ unwritable = {}
  /\ out = EmptyOut
  /\ txt_files = <<>>
  /\ idx = 0
  /\ log = <<>>
  /\ run = 1
  /\ out1 = EmptyOut

NoParse ==
  /\ lines = <<>>
  /\ chapter_num = 0
  /\ title_text = <<>>
  /\ paragraphs = <<>>
  /\ current_paragraph = <<>>
  /\ li = 0
  /\ result = <<>>

\* The numeral conversion alone: parse_chapter_title applied to a title line.
NumInit ==
  /\ pc = "title"
  /\ Idle
  /\ NoParse
  /\ cur = NoFile
  /\ \/ \E n \in 1..MaxChapter : first_line = TitleLine(Numeral(n), <<"A">>)
     \/ \E s \in GlyphStrings : first_line = TitleLine(s, <<"A">>)

NumNext == CallParseChapterTitle

SpecNum == NumInit /\ [][NumNext]_vars

(***************************************************************************)
(* One call of parse_txt_file on one file.                                 *)
(***************************************************************************)
HeadChars == {"A", SP, HUI, "yi"}

\* Heading texts: not empty, no whitespace at either end.
HeadingTexts ==
  {x \in SeqsUpTo(HeadChars, MaxHeadLen) : x # <<>> /\ x[1] # SP /\ x[Len(x)] # SP}

PatternNumerals == {<<"yi">>, <<"er", "shi", "yi">>, <<"shi">>, <<"ling">>}

\* Title lines: the marker with a heading, the marker with nothing behind it,
\* a heading without marker, and the empty line.
TitleLines ==
  {TitleLine(num, x) : num \in PatternNumerals, x \in HeadingTexts}
    \cup {TitleLine(num, <<>>) : num \in PatternNumerals}
    \cup HeadingTexts
    \cup {<<>>}

StemChars == {"1", "0", "a", "+", "-", "_"}

Stems == SeqsUpTo(StemChars, MaxStemLen) \ {<<>>}

BodyLines == {<<>>, <<SP>>, <<"A">>, <<SP, "B", SP>>}

Bodies == SeqsUpTo(BodyLines, MaxLines)

FixedBody == << <<>>, <<"A">>, <<>>, <<"B">> >>

\* The file of the given name, title line and following lines.
TextFile(st, r, pre, t, b) ==
  [stem |-> st, readable |-> r, content |-> pre \o <<t>> \o b]

\* Files that differ in name and title line, and files that differ in the
\* lines around and after the title line.
ParseInit ==
  /\ pc = "open"
  /\ Idle
  /\ NoParse
  /\ first_line = <<>>
  /\ \/ \E st \in Stems, t \in TitleLines :
          cur = TextFile(st, TRUE, <<>>, t, FixedBody)
     \/ \E b \in Bodies :
          \/ cur = TextFile(<<"1">>, TRUE, <<>>, TitleLine(<<"yi">>, <<"A">>), b)
          \/ cur = TextFile(<<"1">>, TRUE, << <<SP>> >>, <<SP, "B", SP>>, b)
     \/ \E st \in Stems : cur = TextFile(st, FALSE, <<>>, <<"A">>, FixedBody)

SpecParse == ParseInit /\ [][ParseNext]_vars

(***************************************************************************)
(* Runs of main over a source directory.                                   *)
(***************************************************************************)
ChapterFile(n) ==
  [stem |-> DecStr(n), readable |-> TRUE,
   content |-> <<TitleLine(Numeral(n), <<"A">>)>> \o FixedBody]

MixedStems == {<<"1">>, <<"a">>, <<"b">>, <<"sup2">>}

MixedFiles ==
  {[stem |-> st, readable |-> r, content |-> <<t>> \o FixedBody] :
     st \in MixedStems, r \in BOOLEAN, t \in {TitleLine(<<"yi">>, <<"A">>), <<"A">>}}

\* No two files of a directory have the same name.
DistinctNames(c) ==
  \A i \in 1..Len(c) : \A j \in 1..Len(c) : i # j => c[i].stem # c[j].stem

StaleOut == (OutputName(1) :> << <<"B">> >>)

\* The directory holds two chapters whose title lines carry different
\* numerals, or up to MaxFiles files, readable or not, with numeric and other
\* names.
MainInit ==
  /\ pc = "main"
  /\ txt_files = <<>>
  /\ idx = 0
  /\ log = <<>>
  /\ run = 1
  /\ out1 = EmptyOut
  /\ NoParse
  /\ first_line = <<>>
  /\ cur = NoFile
  /\ \/ /\ \E m \in 1..MaxChapter, n \in 1..MaxChapter :
             m # n /\ dir = <<ChapterFile(m), ChapterFile(n)>>
        /\ unwritable = {}
        /\ out = EmptyOut
     \/ /\ \E c \in SeqsUpTo(MixedFiles, MaxFiles) : DistinctNames(c) /\ dir = c
        /\ unwritable \in SUBSET {OutputName(1)}
        /\ out \in {EmptyOut, StaleOut}

SpecMain == MainInit /\ [][MainNext]_vars

(***************************************************************************)
(* Claims about the numeral conversion, checked under SpecNum.             *)
(***************************************************************************)
\* The numeral between DI and HUI of the title line handed to the parser.
GivenNumeral == SubSeq(first_line, 2, Len(first_line) - 3)

TWENTY == <<"er", "shi">>

\* C1: the standard numeral of every chapter number 1..MaxChapter is
\* converted to the number it denotes.
C1_NumeralValue ==
  pc = "titled" =>
    \A n \in 1..MaxChapter : GivenNumeral = Numeral(n) => chapter_num = n

TitleIndex(content) ==
  IF \E i \in 1..Len(content) : ~IsBlank(content[i])
  THEN CHOOSE i \in 1..Len(content) :
         ~IsBlank(content[i]) /\ \A j \in 1..(i - 1) : IsBlank(content[j])
  ELSE Len(content) + 1

\* The title line of the file, trimmed.
GivenTitle(content) ==
  IF TitleIndex(content) <= Len(content) THEN Strip(content[TitleIndex(content)]) ELSE <<>>

\* s without its first k characters
Drop(s, k) == SubSeq(s, k + 1, Len(s))

IsHeadingText(x) == x # <<>> /\ x[1] # SP /\ x[Len(x)] # SP

\* t is the marker DI num HUI, one space and a heading text.
IsTitled(t, num) ==
  /\ StartsWith(t, <<DI>> \o num \o <<HUI, SP>>)
  /\ IsHeadingText(Drop(t, Len(num) + 3))

ParseEnded == pc \in {"returned", "raised"} /\ cur.readable

\* The id and heading a file titled "DI num HUI X" must get.
TitledAs(num, n) ==
  (ParseEnded /\ IsTitled(GivenTitle(cur.content), num)) =>
    /\ pc = "returned"
    /\ result.id = n
    /\ result.titleText = Drop(GivenTitle(cur.content), Len(num) + 3)

\* C3: a file whose title line is the marker of chapter one, twenty-one or
\* ten followed by a heading text X gets id 1, 21 or 10 and titleText X,
\* whatever its base name.
C3_TitledChapters ==
  /\ TitledAs(<<"yi">>, 1)
  /\ TitledAs(<<"er", "shi", "yi">>, 21)
  /\ TitledAs(<<"shi">>, 10)

\* A file with a base name that is no number, titled chapter twenty-one with
\* a heading of two characters, has been parsed.
C3_Witness ==
  /\ pc = "returned"
  /\ ~IntParse(cur.stem).ok
  /\ IsTitled(GivenTitle(cur.content), <<"er", "shi", "yi">>)
  /\ result.id = 21
  /\ Len(result.titleText) = 2

\* The paragraphs the lines after the title line must give: one for every
\* maximal run of consecutive non-blank lines, in the order of the runs, its
\* one string the trimmed lines of the run put together.
ExpectedParagraphs(content) ==
  LET n == Len(content)
      t == TitleIndex(content)
      NonBlank(i) == ~IsBlank(content[i])
      starts == {i \in (t + 1)..n : NonBlank(i) /\ (i = t + 1 \/ ~NonBlank(i - 1))}
      EndOf(i) == CHOOSE j \in i..n :
                    /\ \A k \in i..j : NonBlank(k)
                    /\ (j = n \/ ~NonBlank(j + 1))
      TextOf(i) == Join([k \in 1..(EndOf(i) - i + 1) |-> Strip(content[i + k - 1])])
      Rank(i) == Cardinality({j \in starts : j <= i})
  IN [r \in 1..Cardinality(starts) |->
        [content |-> <<TextOf(CHOOSE i \in starts : Rank(i) = r)>>]]

\* C4: the paragraphs returned are exactly the maximal runs of non-blank
\* lines after the title line, in source order, each the concatenation of
\* its trimmed lines.
C4_ParagraphsAreRuns ==
  pc = "returned" => result.paragraphs = ExpectedParagraphs(cur.content)

\* The lines "", "A", "B", "", "", "A", "" after the title line have given
\* the paragraphs "AB" and "A".
C4_Witness ==
  /\ pc = "returned"
  /\ cur.content = <<TitleLine(<<"yi">>, <<"A">>), <<>>, <<"A">>, <<SP, "B", SP>>,
                     <<>>, <<>>, <<"A">>, <<>>>>
  /\ result.paragraphs = <<[content |-> << <<"A", "B">> >>], [content |-> << <<"A">> >>]>>

ParagraphsWellFormed ==
  \A i \in 1..Len(paragraphs) :
    Len(paragraphs[i].content) = 1 /\ paragraphs[i].content[1] # <<>>

BlankWhileIdle ==
  /\ pc = "segment"
  /\ li <= Len(lines)
  /\ IsBlank(lines[li])
  /\ current_paragraph = <<>>

\* C5: at every point of the segmentation loop and after it every paragraph
\* holds exactly one string, which is not empty; a blank line read while the
\* buffer is empty leaves the paragraphs and the buffer as they are.
C5_NoEmptyParagraph ==
  /\ []ParagraphsWellFormed
  /\ [][BlankWhileIdle =>
          (paragraphs' = paragraphs /\ current_paragraph' = current_paragraph)]_vars

\* A paragraph has been emitted and the blank line after the one that
\* closed it has been read with the buffer empty.
C5_Witness ==
  /\ pc = "segment"
  /\ li >= 4
  /\ IsBlank(lines[li - 1])
  /\ IsBlank(lines[li - 2])
  /\ Len(paragraphs) = 1
  /\ current_paragraph = <<>>

PurelyDigits(s) == s # <<>> /\ \A i \in 1..Len(s) : s[i] \in DigitChars

\* C7: a file whose title gives the candidate id 0 and whose base name is
\* not made of decimal digits alone yields no Chapter Record.
C7_NonDigitNameFails ==
  pc = "returned" =>
    ~(parse_chapter_title(GivenTitle(cur.content))[1] = 0 /\ ~PurelyDigits(cur.stem))

\* t has the form DI, numeral glyphs, HUI, text.
PatternHolds(t) ==
  \E k \in 1..Len(t) :
    /\ t[1] = DI
    /\ Len(t) > k + 2
    /\ \A i \in 2..(k + 1) : t[i] \in NumeralGlyphs
    /\ t[k + 2] = HUI

\* The number a string of decimal digits denotes.
RECURSIVE DecimalValue(_)
DecimalValue(s) ==
  IF s = <<>> THEN 0
  ELSE 10 * DecimalValue(SubSeq(s, 1, Len(s) - 1)) + DigitVal(s[Len(s)])

\* C8: a file whose base name is a decimal integer n and whose title line
\* does not have the form DI numeral HUI text gets id n, and title and
\* titleText equal to the trimmed title line.
C8_FilenameFallback ==
  (ParseEnded /\ PurelyDigits(cur.stem) /\ ~PatternHolds(GivenTitle(cur.content))) =>
    /\ pc = "returned"
    /\ result.id = DecimalValue(cur.stem)
    /\ result.title = GivenTitle(cur.content)
    /\ result.titleText = GivenTitle(cur.content)

\* The file "10.txt" with a title line of plain text has been parsed.
C8_Witness ==
  /\ pc = "returned"
  /\ cur.stem = <<"1", "0">>
  /\ GivenTitle(cur.content) = <<"A", "A">>
  /\ result.id = 10
  /\ result.titleText = <<"A", "A">>

(***************************************************************************)
(* Claims about main, checked under SpecMain.                              *)
(***************************************************************************)
\* The chapter number the title line of file f carries, 0 if none.
TitledNumber(f) ==
  IF \E n \in 1..MaxChapter : f.content[1] = TitleLine(Numeral(n), <<"A">>)
  THEN CHOOSE n \in 1..MaxChapter : f.content[1] = TitleLine(Numeral(n), <<"A">>)
  ELSE 0

\* Every file is readable and titled with a numeral, no two with the same.
DistinctNumerals ==
  /\ dir # <<>>
  /\ \A i \in 1..Len(dir) : dir[i].readable /\ TitledNumber(dir[i]) # 0
  /\ \A i \in 1..Len(dir) : \A j \in 1..Len(dir) :
       i # j => TitledNumber(dir[i]) # TitledNumber(dir[j])

\* C2: over files whose title lines carry pairwise different numerals the
\* records written have pairwise different ids, each the number its numeral
\* denotes: every file has its own chapter-NNN.json.
C2_DistinctIds ==
  (pc = "exit" /\ DistinctNumerals /\ unwritable = {}) =>
    /\ DOMAIN out = {OutputName(TitledNumber(dir[i])) : i \in 1..Len(dir)}
    /\ Cardinality(DOMAIN out) = Len(dir)

\* Number of lines of the given kind printed for the file of the given name.
Printed(kind, stem) ==
  Cardinality({k \in 1..Len(log) : log[k] = Line(kind, stem)})

RunEnded == pc \in {"exit", "crashed"}

\* C6: whichever files fail, every file of the directory is attempted once,
\* gets one report of its own (created or error), and the run ends with the
\* summary line.
C6_EveryFileAttempted ==
  (RunEnded /\ dir # <<>>) =>
    /\ pc = "exit"
    /\ \A i \in 1..Len(dir) :
         /\ Printed("Processing", dir[i].stem) = 1
         /\ Printed("Created", dir[i].stem) + Printed("ERROR", dir[i].stem) = 1
    /\ log[Len(log)] = Line("Done", <<>>)

\* C9: the second run over the unchanged directory leaves the output
\* directory with the files and the contents the first run left.
C9_Idempotent == (run = 2 /\ RunEnded) => out = out1

\* The second run has ended over a directory with a failing file and two
\* files written to the same output file, which held something else before
\* the first run.
C9_Witness ==
  /\ run = 2
  /\ pc = "exit"
  /\ \E k \in 1..Len(log) : log[k].kind = "ERROR"
  /\ Cardinality({k \in 1..Len(log) : log[k].kind = "Created"}) = 2
  /\ Cardinality(DOMAIN out) = 1
  /\ out # StaleOut
  /\ out = out1

=============================================================================
